---- MODULE Spec2Model ----
(***************************************************************************)
(* Model of wyoming-openwakeword's per-connection event handler            *)
(* (wyoming_openwakeword/handler.py) and of the process-wide model cache   *)
(* it shares between connections.                                          *)
(*                                                                         *)
(* One OpenWakeWordEventHandler object exists per connection.  The server  *)
(* is a single asyncio loop: a handler's handle_event() runs without       *)
(* interruption except at `await self.write_event(...)`, and the only      *)
(* state shared between handlers (_CACHED_MODELS) is read and written in   *)
(* the synchronous helpers _init_model / _return_model_to_cache.  Each     *)
(* handle_event() call is therefore one action.  Both time.monotonic()     *)
(* reads of one chunk (handler.py:123,128) are taken at the same tick.     *)
(*                                                                         *)
(* Strings are sequences of one-character strings, so that lower(),        *)
(* replace(), strip() and the regular expression are computed.             *)
(***************************************************************************)
EXTENDS Integers, Sequences, FiniteSets, TLC

----------------------------------------------------------------------------
(* Bounds of the model *)

\* the clock (time.monotonic(), in ticks) runs from 0 to MaxTime
MaxTime == 1

\* the connections the server serves at once
Sessions == {"s1", "s2"}

\* the longest name a lookup is made for, the file stems themselves aside
MaxNameLen == 3

----------------------------------------------------------------------------
(* Settings (const.py, __main__.py) *)

\* --threshold 0.5, in hundredths
detection_threshold == 50
\* --refractory-seconds 0.5, in clock ticks of half a second
refractory_seconds == 1
\* scores the classifier may report: at the threshold, and above it
ScoreValues == {detection_threshold, detection_threshold + 1}

\* Python's None for Optional[int] / Optional[float] fields
None == -1
\* self.model is None
NoModel == <<{}, 0>>

\* file stems found by glob("*.tflite") in the builtin directory: one
\* versioned wake word and the un-versioned feature model
stem_a_v1 == <<"a", "_", "v", "1">>
stem_mel == <<"m">>
stem_b == <<"b">>
builtin_models_dir == << stem_a_v1, stem_mel >>
\* one custom directory holding one un-versioned model
custom_model_dirs == << << stem_b >> >>
\* whether --output-dir is given
output_dir_set == TRUE

\* names a client may send in Detect
name_b == <<"b">>
name_z == <<"z">>
DetectNames == {name_b, name_z}

----------------------------------------------------------------------------
(* Strings *)

Digits == {"0", "1", "2", "3", "4", "5", "6", "7", "8", "9"}

\* str.lower() on one character
LowerChar(c) ==
    CASE c = "A" -> "a"
      [] c = "B" -> "b"
      [] c = "Z" -> "z"
      [] c = "V" -> "v"
      [] OTHER -> c

\* str.strip(): drop leading and trailing blanks
RECURSIVE Strip(_)
Strip(str) ==
    IF str = <<>> THEN <<>>
    ELSE IF Head(str) = " " THEN Strip(Tail(str))
    ELSE IF str[Len(str)] = " " THEN Strip(SubSeq(str, 1, Len(str) - 1))
    ELSE str

\* (a normalisation that keeps the case)
_normalize_key_CaseSensitive(model_key) ==
    Strip([i \in 1..Len(model_key) |->
              IF model_key[i] = "_" THEN " " ELSE model_key[i]])

\* model_key.lower().replace("_", " ").strip()
_normalize_key(model_key) ==
    Strip([i \in 1..Len(model_key) |->
              LET c == LowerChar(model_key[i]) IN IF c = "_" THEN " " ELSE c])

\* positions i of the "_" at which ^(.+)_(v[0-9.]+)$ splits the stem
VersionSplits(stem) ==
    {i \in 2..(Len(stem) - 2) :
        /\ stem[i] = "_"
        /\ stem[i + 1] = "v"
        /\ \A j \in (i + 2)..Len(stem) : stem[j] \in Digits \cup {"."}}

\* whether _WAKE_WORD_WITH_VERSION.match(stem) succeeds
_WAKE_WORD_WITH_VERSION(stem) == VersionSplits(stem) # {}

\* match.group(1): the greedy (.+) takes the longest prefix
VersionGroup1(stem) ==
    LET i == CHOOSE k \in VersionSplits(stem) :
                 \A l \in VersionSplits(stem) : l <= k
    IN SubSeq(stem, 1, i - 1)

\* match.group(2)
VersionGroup2(stem) ==
    LET i == CHOOSE k \in VersionSplits(stem) :
                 \A l \in VersionSplits(stem) : l <= k
    IN SubSeq(stem, i + 1, Len(stem))

----------------------------------------------------------------------------
(* Model files.  A path is <<directory index, stem>>; directory 0 is the   *)
(* builtin directory, directory k the k-th custom directory.               *)

PathsOf(dir, stems) == [i \in 1..Len(stems) |-> <<dir, stems[i]>>]

RECURSIVE ConcatDirs(_, _)
ConcatDirs(dirs, k) ==
    IF k > Len(dirs) THEN <<>>
    ELSE PathsOf(k, dirs[k]) \o ConcatDirs(dirs, k + 1)

\* builtin files with a versioned stem, then every file of every custom
\* directory in configured order
ModelPathsOf(builtin, customs) ==
    SelectSeq(PathsOf(0, builtin),
              LAMBDA p : _WAKE_WORD_WITH_VERSION(p[2]))
      \o ConcatDirs(customs, 1)

\* _get_model_paths() under the configured settings
_get_model_paths == ModelPathsOf(builtin_models_dir, custom_model_dirs)

\* whether the name selects the path (exact match, or match without version)
NameMatchesPath(model_name, path) ==
    \/ _normalize_key(model_name) = _normalize_key(path[2])
    \/ /\ _WAKE_WORD_WITH_VERSION(path[2])
       /\ _normalize_key(model_name) = _normalize_key(VersionGroup1(path[2]))

\* (the last matching path is taken)
FirstMatch_Last(model_name, model_paths) ==
    LET hits == {i \in 1..Len(model_paths) :
                     NameMatchesPath(model_name, model_paths[i])}
    IN IF hits = {} THEN <<>>
       ELSE << model_paths[CHOOSE i \in hits : \A j \in hits : j <= i] >>

\* the inner loop with its breaks: the first matching path, if any
FirstMatch(model_name, model_paths) ==
    LET hits == {i \in 1..Len(model_paths) :
                     NameMatchesPath(model_name, model_paths[i])}
    IN IF hits = {} THEN <<>>
       ELSE << model_paths[CHOOSE i \in hits : \A j \in hits : i <= j] >>

RECURSIVE ResolveNames(_, _)
ResolveNames(names, model_paths) ==
    IF names = <<>> THEN <<>>
    ELSE FirstMatch(Head(names), model_paths)
           \o ResolveNames(Tail(names), model_paths)

\* the body of _get_wakeword_model_paths over the paths found
WakewordModelPathsOf(names, model_paths) ==
    IF names = <<>> THEN model_paths
    ELSE ResolveNames(names, model_paths)

\* names is self.detect_names in the order the set iterates
_get_wakeword_model_paths(names) ==
    WakewordModelPathsOf(names, _get_model_paths)

\* the requested names that select no file
DroppedNames(names) ==
    {n \in names : FirstMatch(n, _get_model_paths) = <<>>}

Range(f) == {f[i] : i \in DOMAIN f}

\* the orders in which iterating a Python set may yield its elements
Orders(S) ==
    {f \in [1..Cardinality(S) -> S] :
        \A i, j \in 1..Cardinality(S) : f[i] = f[j] => i = j}

RECURSIVE Dedupe(_)
Dedupe(seq) ==
    IF seq = <<>> THEN <<>>
    ELSE LET rest == Dedupe(SubSeq(seq, 1, Len(seq) - 1))
             x == seq[Len(seq)]
         IN IF x \in Range(rest) THEN rest ELSE Append(rest, x)

----------------------------------------------------------------------------
(* openwakeword.Model, as the handler uses it *)

\* Model(wakeword_models=[]) loads the library's pretrained models, which
\* it names without version; otherwise each model is named by its file stem
pretrained_names ==
    LET versioned == SelectSeq(builtin_models_dir, _WAKE_WORD_WITH_VERSION)
    IN [i \in 1..Len(versioned) |-> VersionGroup1(versioned[i])]

\* the keys of model.prediction_buffer, in order
PredictionNames(wakeword_models) ==
    IF wakeword_models = <<>> THEN pretrained_names
    ELSE Dedupe([i \in 1..Len(wakeword_models) |-> wakeword_models[i][2]])

\* every model name a prediction buffer can hold
ModelNames ==
    Range(pretrained_names) \cup {p[2] : p \in Range(_get_model_paths)}

\* every frozenset of model paths
CacheKeys == SUBSET Range(_get_model_paths)
\* a Model object is named by the key it was constructed for and its rank
\* among the objects of that key; objects are never destroyed
MaxModels == Cardinality(Sessions) + 1
ModelIds == CacheKeys \X (1..MaxModels)
\* self.model_cache_key is None
NoKey == {<<None, <<>>>>}

\* a dict of str -> float with no entries
EmptyTimes == [m \in ModelNames |-> None]

----------------------------------------------------------------------------
(* State *)

VARIABLES
    connected,        \* the connection's handler is serving events
    model,            \* self.model: a member of ModelIds, or NoModel
    model_cache_key,  \* self.model_cache_key
    model_wait_time,  \* self.model_wait_time
    last_timestamp,   \* self.last_timestamp
    has_detections,   \* self.has_detections
    detect_names,     \* self.detect_names
    audio_writer,     \* self.audio_writer is not None
    cached,           \* _CACHED_MODELS
    models,           \* each Model object: "none" until constructed, then
                      \* "reset" or "fed" (audio predicted since its reset)
    now,              \* time.monotonic()
    lastEvent,        \* type of the event the session's handler handled last
    lastOut,          \* the events that call wrote to the client, in order
    lastChunk,        \* the AudioChunk handled last and what preceded it
    seg,              \* history of the session since its last AudioStart
    returned,         \* what the session's last handle_event() returned
    lastSink,         \* the audio files the session's last call had open
    resolution        \* the last name lookup made on its own: the directories
                      \* scanned, the names asked for, the paths returned

handler_vars == <<connected, model, model_cache_key, model_wait_time,
                  last_timestamp, has_detections, detect_names, audio_writer>>
ghost_vars == <<lastEvent, lastOut, lastChunk, seg, returned, lastSink>>
vars == <<handler_vars, cached, models, now, ghost_vars, resolution>>

\* events written to the client
DetectionEvent(model_name, timestamp) ==
    [type |-> "detection", name |-> model_name, timestamp |-> timestamp]
NotDetectedEvent == [type |-> "not-detected", name |-> <<>>, timestamp |-> None]

\* (a description that keeps the version suffix)
_get_description_KeepVersion(file_name) ==
    [i \in 1..Len(file_name) |->
        IF file_name[i] = "_" THEN " " ELSE file_name[i]]

\* _get_description: the stem without its version, "_" replaced by " "
_get_description(file_name) ==
    LET name == IF _WAKE_WORD_WITH_VERSION(file_name)
                THEN VersionGroup1(file_name) ELSE file_name
    IN [i \in 1..Len(name) |-> IF name[i] = "_" THEN " " ELSE name[i]]

\* None for an Optional[str]: no string, and no version the pattern
\* matches is empty
NoVersion == <<>>

\* _get_version: the version of the stem, or None
_get_version(file_name) ==
    IF _WAKE_WORD_WITH_VERSION(file_name)
    THEN VersionGroup2(file_name) ELSE NoVersion

\* WakeModel(...) of _get_info, attribution, installed and languages
\* being the same for every model
WakeModel(stem) ==
    [name |-> stem, description |-> _get_description(stem),
     phrase |-> _get_description(stem), version |-> _get_version(stem)]

\* the Info event for the model paths: one wake program, one WakeModel for
\* each path
InfoOf(model_paths) ==
    [type |-> "info", name |-> <<>>, timestamp |-> None,
     wake |-> << [name |-> "openwakeword",
                  models |-> [i \in 1..Len(model_paths) |->
                                 WakeModel(model_paths[i][2])]] >>]

\* self._get_info().event()
_get_info == InfoOf(_get_model_paths)
InfoEvent == _get_info

\* lastChunk when the last call handled no AudioChunk
\* otherwise:
\*   timestamp the timestamp the client gave the chunk
\*   scores    the last score of each model of the held Model object
\*   recent    the models of the held Model object of which a Detection
\*             was written since the last AudioStart and less than
\*             refractory_seconds before the chunk was handled
\*   calls     how often the call scored the chunk with model.predict
NoChunk ==
    [timestamp |-> None, scores |-> EmptyTimes, recent |-> {}, calls |-> 0]

\* seg when the session has sent nothing yet:
\*   state     "open" from AudioStart to AudioStop, "stopped" once the
\*             AudioStop that ends an open segment is handled, else "none"
\*   quiet     no score since the last AudioStart was above the threshold
\*   det       a Detection was written since the last AudioStart
\*   nth       whether the last chunk was the "first" since the last
\*             AudioStart or a "later" one
\*   detTime   when the last Detection of each model was written since the
\*             last AudioStart
\*   requested every name the session has sent in Detect
\*   dropped   the names the last call's _init_model matched with no file
NewSeg == [state |-> "none", quiet |-> TRUE, det |-> FALSE, nth |-> "none",
           detTime |-> EmptyTimes, requested |-> {}, dropped |-> {}]

\* lastSink when the session has made no call:
\*   peak     the most Wave_write objects the session had open at one
\*            moment of the call
\*   dropped  the call replaced self.audio_writer while it held an open
\*            Wave_write, without calling close() on it
NoSink == [peak |-> 0, dropped |-> FALSE]

\* handler.py:93-96: what a call does to the audio files, given whether
\* self.audio_writer held an open Wave_write when the call began and
\* whether the call opens one: wave.open() returns the new object before
\* the assignment lets go of the old one
SinkOfCall(open_before, opens) ==
    [peak |-> (IF open_before THEN 1 ELSE 0) + (IF opens THEN 1 ELSE 0),
     dropped |-> open_before /\ opens]

\* resolution before any lookup
NoResolution ==
    [builtin |-> <<>>, customs |-> <<>>, names |-> <<>>,
     model_paths |-> <<>>, detect_model_paths |-> <<>>]

\* the handlers as __init__ leaves them, the cache empty
Constructed ==
    /\ model = [s \in Sessions |-> NoModel]
    /\ model_cache_key = [s \in Sessions |-> NoKey]
    /\ model_wait_time = [s \in Sessions |-> EmptyTimes]
    /\ last_timestamp = [s \in Sessions |-> None]
    /\ has_detections = [s \in Sessions |-> FALSE]
    /\ detect_names = [s \in Sessions |-> {}]
    /\ audio_writer = [s \in Sessions |-> FALSE]
    /\ cached = [k \in CacheKeys |-> <<>>]
    /\ models = [i \in ModelIds |-> "none"]
    /\ now = 0
    /\ lastEvent = [s \in Sessions |-> "none"]
    /\ lastOut = [s \in Sessions |-> <<>>]
    /\ lastChunk = [s \in Sessions |-> NoChunk]
    /\ seg = [s \in Sessions |-> NewSeg]
    /\ returned = [s \in Sessions |-> None]
    /\ lastSink = [s \in Sessions |-> NoSink]
    /\ resolution = NoResolution

\* one client has connected
Init ==
    /\ connected = [s \in Sessions |-> s = "s1"]
    /\ Constructed

\* both clients have connected
InitPair ==
    /\ connected = [s \in Sessions |-> TRUE]
    /\ Constructed

----------------------------------------------------------------------------
(* Helpers of the handler *)

\* (a lookup that never finds a cached model)
CachedModelsGet_Miss(cache, key) == <<>>

\* _CACHED_MODELS.get(self.model_cache_key)
CachedModelsGet(cache, key) == cache[key]

\* Model(wakeword_models=...): the next object of the key
NewModel(key) ==
    <<key, 1 + Cardinality({n \in 1..MaxModels : models[<<key, n>>] # "none"})>>

\* _init_model.  A handler that holds no model takes the last cached model
\* of its key, or constructs one.  The result: the new self.model,
\* self.model_cache_key, _CACHED_MODELS, and the names matched with no file.
InitModel(s) ==
    IF model[s] # NoModel
    THEN [model |-> model[s], key |-> model_cache_key[s],
          cached |-> cached, dropped |-> {}]
    ELSE LET names == CHOOSE order \in Orders(detect_names[s]) : TRUE
             wakeword_models == _get_wakeword_model_paths(names)
             key == Range(wakeword_models)
             cached_models == CachedModelsGet(cached, key)
         IN IF cached_models # <<>>
            THEN [model |-> cached_models[Len(cached_models)],
                  key |-> key,
                  cached |-> [cached EXCEPT ![key] =
                                 SubSeq(@, 1, Len(@) - 1)],
                  dropped |-> DroppedNames(detect_names[s])]
            ELSE [model |-> NewModel(key),
                  key |-> key,
                  cached |-> cached,
                  dropped |-> DroppedNames(detect_names[s])]

\* the model names of a Model object, as a set; the order in which
\* prediction_buffer yields them follows the order of wakeword_models,
\* which for requested names is the iteration order of a set
PredictionNameSet(id) ==
    IF id[1] = {} THEN Range(pretrained_names) ELSE {p[2] : p \in id[1]}

\* (the model is appended to the cache twice)
ReturnModelToCache_Twice(cache, m, key) ==
    IF m # NoModel /\ key # NoKey
    THEN [cache EXCEPT ![key] = Append(Append(@, m), m)]
    ELSE cache

\* _return_model_to_cache: the new _CACHED_MODELS
ReturnModelToCache(cache, m, key) ==
    IF m # NoModel /\ key # NoKey
    THEN [cache EXCEPT ![key] = Append(@, m)]
    ELSE cache

\* (the timestamp is not taken from the chunk)
ChunkTimestamp_Stale(old, chunk) == old

\* handler.py:107: self.last_timestamp = chunk.timestamp, the converter
\* leaving a chunk's timestamp as it is
ChunkTimestamp(old, chunk) == chunk.timestamp

\* (no model is ever skipped)
SkipDetection_Never(names, model_name) == FALSE

\* handler.py:116: the model is not one the session listens for
SkipDetection(names, model_name) ==
    names # {} /\ model_name \notin names

\* (a score at the threshold counts as a detection)
AboveThreshold_Inclusive(score) == score >= detection_threshold

\* handler.py:121
AboveThreshold(score) == score > detection_threshold

\* (a refractory period that never ends)
WithinRefractory_Forever(model_time, t) == model_time # None

\* handler.py:122-123
WithinRefractory(model_time, t) == model_time # None /\ t < model_time

\* (the refractory period is not added)
NextWaitTime_NoRefractory(t) == t

\* handler.py:127-129
NextWaitTime(t) == t + refractory_seconds

\* (the refractory deadlines survive AudioStart)
ClearedWaitTime_Kept(old) == old

\* handler.py:89: self.model_wait_time.clear()
ClearedWaitTime(old) == EmptyTimes

\* (AudioStop writes the wrong event type)
AudioStopEvents_WrongType(detections) ==
    IF ~detections THEN <<DetectionEvent(<<>>, None)>> ELSE <<>>

\* handler.py:140-143: the events AudioStop writes
AudioStopEvents(detections) ==
    IF ~detections THEN <<NotDetectedEvent>> ELSE <<>>

\* (the connection is dropped on an event of unexpected type)
HandleEventResult_Drop(event_type) == event_type # "unexpected"

\* handler.py:73,154: handle_event returns True, whatever the event
HandleEventResult(event_type) == TRUE

\* (a chunk is not scored while names are requested or a model is within
\* its refractory period)
PredictCalls_Filtered(names, wait_time, t) ==
    IF names # {} \/ \E m \in ModelNames : WithinRefractory(wait_time[m], t)
    THEN 0 ELSE 1

\* handler.py:114: predict is called once for the chunk, ahead of the loop
\* that looks at the detect names and the refractory deadlines
PredictCalls(names, wait_time, t) == 1

\* handler.py:114: self.model.predict(chunk_array) feeds the model
Predict(state) == "fed"

\* (the Detection carries the timestamp of the other client's audio)
WrittenDetection_OtherChunk(model_name, timestamp) ==
    DetectionEvent(model_name, 3 - timestamp)

\* handler.py:131-135: the event written for a detection
WrittenDetection(model_name, timestamp) ==
    DetectionEvent(model_name, timestamp)

----------------------------------------------------------------------------
(* Actions: one per event type of handle_event, plus disconnect *)

\* Describe: write the info, change nothing
HandleDescribe(s) ==
    /\ connected[s]
    /\ lastEvent' = [lastEvent EXCEPT ![s] = "describe"]
    /\ lastSink' = [lastSink EXCEPT ![s] = SinkOfCall(audio_writer[s], FALSE)]
    /\ returned' = [returned EXCEPT ![s] = HandleEventResult("describe")]
    /\ lastOut' = [lastOut EXCEPT ![s] = <<InfoEvent>>]
    /\ lastChunk' = [lastChunk EXCEPT ![s] = NoChunk]
    /\ seg' = [seg EXCEPT ![s].dropped = {}]
    /\ UNCHANGED <<resolution, handler_vars, cached, models, now>>

\* Detect: add the names, if any, to self.detect_names
HandleDetect(s, names) ==
    /\ connected[s]
    /\ detect_names' = [detect_names EXCEPT ![s] =
                           IF names # {} THEN @ \cup names ELSE @]
    /\ lastEvent' = [lastEvent EXCEPT ![s] = "detect"]
    /\ lastSink' = [lastSink EXCEPT ![s] = SinkOfCall(audio_writer[s], FALSE)]
    /\ returned' = [returned EXCEPT ![s] = HandleEventResult("detect")]
    /\ lastOut' = [lastOut EXCEPT ![s] = <<>>]
    /\ seg' = [seg EXCEPT ![s].requested = @ \cup names,
                          ![s].dropped = {}]
    /\ lastChunk' = [lastChunk EXCEPT ![s] = NoChunk]
    /\ UNCHANGED <<resolution, connected, model, model_cache_key, model_wait_time,
                   last_timestamp, has_detections, audio_writer,
                   cached, models, now>>

\* AudioStart: load a model if none is held, reset, open the audio file
HandleAudioStart(s) ==
    /\ connected[s]
    /\ LET o == InitModel(s)
       IN /\ o.model \in ModelIds
          /\ model' = [model EXCEPT ![s] = o.model]
          /\ model_cache_key' = [model_cache_key EXCEPT ![s] = o.key]
          /\ cached' = o.cached
          /\ models' = [models EXCEPT ![o.model] = "reset"]
          /\ seg' = [seg EXCEPT ![s] =
                        [NewSeg EXCEPT !.state = "open",
                                       !.requested = seg[s].requested,
                                       !.dropped = o.dropped]]
    /\ lastChunk' = [lastChunk EXCEPT ![s] = NoChunk]
    /\ last_timestamp' = [last_timestamp EXCEPT ![s] = None]
    /\ has_detections' = [has_detections EXCEPT ![s] = FALSE]
    /\ detect_names' = [detect_names EXCEPT ![s] = {}]
    /\ model_wait_time' = [model_wait_time EXCEPT ![s] = ClearedWaitTime(@)]
    /\ audio_writer' = [audio_writer EXCEPT ![s] =
                           IF output_dir_set THEN TRUE ELSE @]
    /\ lastEvent' = [lastEvent EXCEPT ![s] = "audio-start"]
    /\ lastSink' = [lastSink EXCEPT ![s] =
                       SinkOfCall(audio_writer[s], output_dir_set)]
    /\ returned' = [returned EXCEPT ![s] = HandleEventResult("audio-start")]
    /\ lastOut' = [lastOut EXCEPT ![s] = <<>>]
    /\ UNCHANGED <<resolution, connected, now>>

\* AudioChunk: load a model if none is held, score the chunk, and write a
\* Detection for every model above the threshold that is neither skipped
\* nor within its refractory period
HandleAudioChunk(s, chunk) ==
    /\ connected[s]
    /\ LET o == InitModel(s)
           held == IF models[o.model] = "none" THEN "reset"
                   ELSE models[o.model]
       IN
       /\ o.model \in ModelIds
       /\ \E buffer \in [PredictionNameSet(o.model) -> ScoreValues] :
          \E fired \in Orders({m \in DOMAIN buffer :
                /\ ~SkipDetection(detect_names[s], m)
                /\ AboveThreshold(buffer[m])
                /\ ~WithinRefractory(model_wait_time[s][m], now)}) :
            LET timestamp == ChunkTimestamp(last_timestamp[s], chunk)
                names == DOMAIN buffer
                written == [i \in 1..Len(fired) |->
                               WrittenDetection(fired[i], timestamp)]
                above == {m \in names :
                             buffer[m] > detection_threshold}
                detected(m) == \E i \in 1..Len(written) :
                                  /\ written[i].type = "detection"
                                  /\ written[i].name = m
            IN /\ model' = [model EXCEPT ![s] = o.model]
               /\ model_cache_key' = [model_cache_key EXCEPT ![s] = o.key]
               /\ cached' = o.cached
               /\ models' = [models EXCEPT ![o.model] = Predict(held)]
               /\ last_timestamp' = [last_timestamp EXCEPT ![s] = timestamp]
               /\ model_wait_time' =
                     [model_wait_time EXCEPT ![s] =
                         [m \in ModelNames |->
                             IF m \in Range(fired)
                             THEN NextWaitTime(now) ELSE @[m]]]
               /\ lastOut' = [lastOut EXCEPT ![s] = written]
               /\ lastChunk' = [lastChunk EXCEPT ![s] =
                     [timestamp |-> chunk.timestamp,
                      scores |-> [m \in ModelNames |->
                                     IF m \in names THEN buffer[m] ELSE None],
                      recent |-> {m \in names :
                                    /\ seg[s].detTime[m] # None
                                    /\ now - seg[s].detTime[m]
                                          < refractory_seconds},
                      calls |-> PredictCalls(detect_names[s],
                                             model_wait_time[s], now)]]
               /\ seg' = [seg EXCEPT ![s] =
                     [state |-> IF @.state = "open" THEN "open" ELSE "none",
                      quiet |-> @.quiet /\ above = {},
                      det |-> @.det \/ \E m \in ModelNames : detected(m),
                      nth |-> IF @.nth = "none" /\ @.state = "open"
                              THEN "first" ELSE "later",
                      detTime |-> [m \in ModelNames |->
                          IF detected(m) THEN now ELSE @.detTime[m]],
                      requested |-> @.requested,
                      dropped |-> o.dropped]]
    /\ lastEvent' = [lastEvent EXCEPT ![s] = "audio-chunk"]
    /\ lastSink' = [lastSink EXCEPT ![s] = SinkOfCall(audio_writer[s], FALSE)]
    /\ returned' = [returned EXCEPT ![s] = HandleEventResult("audio-chunk")]
    /\ UNCHANGED <<resolution, connected, has_detections, detect_names, audio_writer,
                   now>>

\* AudioStop: write NotDetected unless has_detections, close the audio
\* file, return the model to the cache
HandleAudioStop(s) ==
    /\ connected[s]
    /\ lastOut' = [lastOut EXCEPT ![s] = AudioStopEvents(has_detections[s])]
    /\ audio_writer' = [audio_writer EXCEPT ![s] = FALSE]
    /\ cached' = ReturnModelToCache(cached, model[s], model_cache_key[s])
    /\ model' = [model EXCEPT ![s] = NoModel]
    /\ model_cache_key' = [model_cache_key EXCEPT ![s] = NoKey]
    /\ lastEvent' = [lastEvent EXCEPT ![s] = "audio-stop"]
    /\ lastSink' = [lastSink EXCEPT ![s] = SinkOfCall(audio_writer[s], FALSE)]
    /\ returned' = [returned EXCEPT ![s] = HandleEventResult("audio-stop")]
    /\ seg' = [seg EXCEPT ![s].state =
                                  IF @ = "open" THEN "stopped" ELSE "none",
                              ![s].dropped = {}]
    /\ lastChunk' = [lastChunk EXCEPT ![s] = NoChunk]
    /\ UNCHANGED <<resolution, connected, model_wait_time, last_timestamp,
                   has_detections, detect_names, models, now>>

\* any other event type: logged, nothing else
HandleUnexpected(s) ==
    /\ connected[s]
    /\ lastEvent' = [lastEvent EXCEPT ![s] = "unexpected"]
    /\ lastSink' = [lastSink EXCEPT ![s] = SinkOfCall(audio_writer[s], FALSE)]
    /\ returned' = [returned EXCEPT ![s] = HandleEventResult("unexpected")]
    /\ lastOut' = [lastOut EXCEPT ![s] = <<>>]
    /\ lastChunk' = [lastChunk EXCEPT ![s] = NoChunk]
    /\ seg' = [seg EXCEPT ![s].dropped = {}]
    /\ UNCHANGED <<resolution, handler_vars, cached, models, now>>

\* disconnect(): close the audio file, return the model to the cache.
\* The server then drops the handler object, which serves no further
\* event: its remaining fields can no longer be read and are left as the
\* constructor set them, and so is the session's history.
Disconnect(s) ==
    /\ connected[s]
    /\ connected' = [connected EXCEPT ![s] = FALSE]
    /\ audio_writer' = [audio_writer EXCEPT ![s] = FALSE]
    /\ cached' = ReturnModelToCache(cached, model[s], model_cache_key[s])
    /\ model' = [model EXCEPT ![s] = NoModel]
    /\ model_cache_key' = [model_cache_key EXCEPT ![s] = NoKey]
    /\ model_wait_time' = [model_wait_time EXCEPT ![s] = EmptyTimes]
    /\ last_timestamp' = [last_timestamp EXCEPT ![s] = None]
    /\ has_detections' = [has_detections EXCEPT ![s] = FALSE]
    /\ detect_names' = [detect_names EXCEPT ![s] = {}]
    /\ lastEvent' = [lastEvent EXCEPT ![s] = "disconnect"]
    /\ lastSink' = [lastSink EXCEPT ![s] = SinkOfCall(audio_writer[s], FALSE)]
    /\ returned' = [returned EXCEPT ![s] = None]
    /\ lastOut' = [lastOut EXCEPT ![s] = <<>>]
    /\ lastChunk' = [lastChunk EXCEPT ![s] = NoChunk]
    /\ seg' = [seg EXCEPT ![s] = NewSeg]
    /\ UNCHANGED <<resolution, models, now>>

\* time passes
Tick ==
    /\ now < MaxTime
    /\ now' = now + 1
    /\ UNCHANGED <<resolution, handler_vars, cached, models, ghost_vars>>

\* the chunks a client may send
Chunks == [timestamp : {1, 2}]

Next ==
    \/ \E s \in Sessions : HandleDescribe(s)
    \/ \E s \in Sessions : \E names \in SUBSET DetectNames :
          HandleDetect(s, names)
    \/ \E s \in Sessions : HandleAudioStart(s)
    \/ \E s \in Sessions : \E chunk \in Chunks : HandleAudioChunk(s, chunk)
    \/ \E s \in Sessions : HandleAudioStop(s)
    \/ \E s \in Sessions : HandleUnexpected(s)
    \/ \E s \in Sessions : Disconnect(s)
    \/ Tick

\* One client, sending any event at any time.
Spec == Init /\ [][Next]_vars

\* the chunk each of two clients sends: the clients stamp their audio apart
PairChunk(s) == [timestamp |-> IF s = "s1" THEN 1 ELSE 2]

\* Two clients streaming at the same time: each may start, stream, stop and
\* disconnect in any interleaving, and the first may name the custom model;
\* the clock stands still and all chunks of a client carry one timestamp.
NextPair ==
    \/ HandleDetect("s1", {name_b})
    \/ \E s \in Sessions : HandleAudioStart(s)
    \/ \E s \in Sessions : HandleAudioChunk(s, PairChunk(s))
    \/ \E s \in Sessions : HandleAudioStop(s)
    \/ \E s \in Sessions : Disconnect(s)

SpecPair == InitPair /\ [][NextPair]_vars

----------------------------------------------------------------------------
(* Name lookups on their own: _get_wakeword_model_paths applied to each of   *)
(* a set of directory contents and requested names.                          *)

stem_ab_v1 == <<"a", "_", "b", "_", "v", "1">>
stem_ab == <<"a", "_", "b">>
stem_AB_v2 == <<"A", " ", "B", "_", "v", "2">>

\* contents of the builtin directory, in the order glob yields them
BuiltinDirs ==
    { << stem_ab_v1, stem_mel >>, << stem_a_v1, stem_ab_v1 >>, << stem_mel >> }

\* custom directories in configured order, each with its contents
CustomDirs ==
    { <<>>, << << stem_ab >> >>, << << stem_b >>, << stem_AB_v2, stem_ab >> >> }

NameChars == {"a", "A", "b", "B", "_", " "}

\* the names asked for: every string of up to MaxNameLen characters, and
\* every file stem as it is
LookupNames ==
    UNION {[1..n -> NameChars] : n \in 1..MaxNameLen}
      \cup {stem_ab_v1, stem_ab, stem_AB_v2, stem_a_v1, stem_mel, stem_b}

\* self.detect_names as iterated: one name, or two one-character names
LookupNameSeqs ==
    {<<n>> : n \in LookupNames}
      \cup {<<n, k>> : n, k \in [1..1 -> NameChars]}

\* _get_wakeword_model_paths() for the names over the directories; each
\* behaviour makes one lookup
Lookup(builtin, customs, names) ==
    /\ resolution = NoResolution
    /\ resolution' =
          [builtin |-> builtin, customs |-> customs, names |-> names,
           model_paths |-> ModelPathsOf(builtin, customs),
           detect_model_paths |->
               WakewordModelPathsOf(names, ModelPathsOf(builtin, customs))]
    /\ UNCHANGED <<handler_vars, cached, models, now, ghost_vars>>

NextLookup ==
    \E builtin \in BuiltinDirs : \E customs \in CustomDirs :
        \E names \in LookupNameSeqs : Lookup(builtin, customs, names)

SpecLookup == Init /\ [][NextLookup]_vars

----------------------------------------------------------------------------
(* Properties *)

\* the model names of the Detection events among the written events
DetectedNames(out) ==
    {out[i].name : i \in {j \in DOMAIN out : out[j].type = "detection"}}

\* how many of the written events have the type
CountType(out, type) == Cardinality({i \in DOMAIN out : out[i].type = type})

\* the models the held Model object scored in the last chunk
ScoredNames(s) == {m \in ModelNames : lastChunk[s].scores[m] # None}

\* the session listens for the model (handler.py:116 does not skip it)
ListensFor(s, m) == detect_names[s] = {} \/ m \in detect_names[s]

\* C1: when AudioStop is handled, NotDetected is written only if no
\* Detection was written to the session since its most recent AudioStart.
C1_NotDetectedOnlyWithoutDetection ==
    \A s \in Sessions :
        lastEvent[s] = "audio-stop" /\ seg[s].det
            => CountType(lastOut[s], "not-detected") = 0

\* C2: AudioStart, then any number of chunks whose scores are all at or
\* below the threshold, then AudioStop: the chunks write nothing, and the
\* AudioStop writes exactly one NotDetected; the segment has no Detection.
C2_QuietSegmentNotDetected ==
    \A s \in Sessions :
        /\ lastEvent[s] = "audio-chunk" /\ seg[s].state = "open"
              /\ seg[s].quiet
              => lastOut[s] = <<>>
        /\ lastEvent[s] = "audio-stop" /\ seg[s].state = "stopped"
              /\ seg[s].quiet
              => /\ lastOut[s] = <<NotDetectedEvent>>
                 /\ ~seg[s].det

C2_Witness ==
    \E s \in Sessions :
        /\ lastEvent[s] = "audio-stop"
        /\ seg[s].state = "stopped"
        /\ seg[s].quiet
        /\ seg[s].nth = "later"

\* C3: a chunk writes no Detection for a model of which a Detection was
\* written, since the last AudioStart, less than refractory_seconds before.
C3_RefractorySuppresses ==
    \A s \in Sessions :
        lastEvent[s] = "audio-chunk"
            => DetectedNames(lastOut[s]) \cap lastChunk[s].recent = {}

\* a second burst within the refractory period, which wrote nothing
C3_Witness ==
    \E s \in Sessions : \E m \in ModelNames :
        /\ lastEvent[s] = "audio-chunk"
        /\ seg[s].state = "open"
        /\ m \in lastChunk[s].recent
        /\ lastChunk[s].scores[m] > detection_threshold
        /\ ListensFor(s, m)
        /\ m \notin DetectedNames(lastOut[s])

\* C4: once a session has sent Detect with names, every Detection written
\* to it names a model that one of the requested names matches.
C4_OnlyRequestedModels ==
    \A s \in Sessions :
        seg[s].requested # {}
            => \A m \in DetectedNames(lastOut[s]) :
                   \E n \in seg[s].requested : NameMatchesPath(n, <<0, m>>)

\* C5: every Detection carries the timestamp of the chunk whose handling
\* wrote it, which is the session's last ingested timestamp.
C5_DetectionTimestamp ==
    \A s \in Sessions : \A i \in DOMAIN lastOut[s] :
        lastOut[s][i].type = "detection"
            => /\ lastEvent[s] = "audio-chunk"
               /\ lastOut[s][i].timestamp = lastChunk[s].timestamp
               /\ lastOut[s][i].timestamp = last_timestamp[s]

\* a Detection of a later chunk of a segment, carrying that chunk's timestamp
C5_Witness ==
    \E s \in Sessions : \E i \in DOMAIN lastOut[s] :
        /\ lastEvent[s] = "audio-chunk"
        /\ seg[s].state = "open"
        /\ seg[s].nth = "later"
        /\ lastOut[s][i].type = "detection"
        /\ lastOut[s][i].timestamp = 2

\* C6: a Detection is written only by the handling of the AudioChunk whose
\* score is above the threshold, once per model, so after that chunk
\* arrived and before any later event (AudioStop included) is handled; the
\* handling of AudioStop, Detect or any other event writes no Detection.
C6_DetectionsWithinChunkHandling ==
    \A s \in Sessions :
        /\ lastEvent[s] # "audio-chunk" => DetectedNames(lastOut[s]) = {}
        /\ lastEvent[s] = "audio-chunk"
              => /\ \A i \in DOMAIN lastOut[s] :
                        /\ lastOut[s][i].type = "detection"
                        /\ lastOut[s][i].name \in ScoredNames(s)
                        /\ lastChunk[s].scores[lastOut[s][i].name]
                              > detection_threshold
                 /\ \A i, j \in DOMAIN lastOut[s] :
                        lastOut[s][i].name = lastOut[s][j].name => i = j

\* the AudioStop of a segment that had a Detection
C6_Witness ==
    \E s \in Sessions :
        /\ lastEvent[s] = "audio-stop"
        /\ seg[s].state = "stopped"
        /\ seg[s].det

\* C7: after AudioStart the last timestamp is unset, has_detections is
\* false, the held model is reset and no refractory deadline is left, so
\* the first chunk after it writes a Detection for every model it listens
\* for whose score is above the threshold.
C7_AudioStartResets ==
    \A s \in Sessions :
        /\ lastEvent[s] = "audio-start"
              => /\ last_timestamp[s] = None
                 /\ ~has_detections[s]
                 /\ model[s] \in ModelIds
                 /\ models[model[s]] = "reset"
                 /\ model_wait_time[s] = EmptyTimes
        /\ lastEvent[s] = "audio-chunk" /\ seg[s].nth = "first"
              => \A m \in ScoredNames(s) :
                     lastChunk[s].scores[m] > detection_threshold
                         /\ ListensFor(s, m)
                         => m \in DetectedNames(lastOut[s])

\* an AudioStart that follows a segment in which audio was fed to a model
C7_Witness ==
    \E s \in Sessions :
        /\ lastEvent[s] = "audio-start"
        /\ \E id \in ModelIds : models[id] = "fed"

\* C8: a requested name that matches no model file is reported to the
\* session by the call that resolves the names.
C8_ModelNotFoundSurfaced ==
    \A s \in Sessions : \A n \in seg[s].dropped :
        \E i \in DOMAIN lastOut[s] :
            lastOut[s][i].type = "error" /\ lastOut[s][i].name = n

\* the Model objects constructed for the key
ModelsOfKey(key) == {n \in 1..MaxModels : models[<<key, n>>] # "none"}

SameChar(c, d) ==
    \/ c = d
    \/ {c, d} \in {{"a", "A"}, {"b", "B"}, {"v", "V"}, {"z", "Z"}, {"_", " "}}

\* the string without its leading and trailing blanks and underscores
Core(str) ==
    LET inner == {i \in DOMAIN str : str[i] \notin {"_", " "}}
    IN IF inner = {} THEN <<>>
       ELSE SubSeq(str, CHOOSE i \in inner : \A j \in inner : i <= j,
                        CHOOSE i \in inner : \A j \in inner : j <= i)

\* equal after lower-casing, replacing underscores with spaces and trimming
SameIdentity(x, y) ==
    /\ Len(Core(x)) = Len(Core(y))
    /\ \A i \in DOMAIN Core(x) : SameChar(Core(x)[i], Core(y)[i])

\* the stem without a trailing _v<version>, the version digits and dots
WithoutVersion(stem) ==
    LET us == {i \in DOMAIN stem : stem[i] = "_"}
        u == IF us = {} THEN 0 ELSE CHOOSE i \in us : \A j \in us : j <= i
    IN IF /\ u >= 2
          /\ u + 2 <= Len(stem)
          /\ stem[u + 1] = "v"
          /\ \A j \in (u + 2)..Len(stem) : stem[j] \in Digits \cup {"."}
       THEN SubSeq(stem, 1, u - 1)
       ELSE stem

\* the candidate paths whose identity the name has
Matching(name, model_paths) ==
    {i \in DOMAIN model_paths :
        \/ SameIdentity(name, model_paths[i][2])
        \/ SameIdentity(name, WithoutVersion(model_paths[i][2]))}

\* C11: a requested name resolves to a candidate file exactly when, after
\* lower-casing, replacing underscores with spaces and trimming, it equals
\* the file's stem or the stem without its trailing _v<version>: every
\* returned path is such a file for one of the names, a name with such a
\* file has one returned, and a name with none has none returned.
C11_NameResolution ==
    LET names == resolution.names
        model_paths == resolution.model_paths
        out == resolution.detect_model_paths
    IN names # <<>> =>
        /\ \A i \in DOMAIN out : \E k \in DOMAIN names :
               \E j \in Matching(names[k], model_paths) :
                   out[i] = model_paths[j]
        /\ \A k \in DOMAIN names :
               Matching(names[k], model_paths) # {}
                   <=> \E i \in DOMAIN out : \E j \in
                           Matching(names[k], model_paths) :
                               out[i] = model_paths[j]

\* "A B" asked for, resolved to the builtin file a_b_v1
C11_Witness ==
    /\ resolution.names = << <<"A", " ", "B">> >>
    /\ resolution.detect_model_paths = << <<0, stem_ab_v1>> >>

\* C12: of two sessions streaming at once, each is written only the
\* Detections of its own chunks: every Detection a session has been written
\* names a model its own last chunk scored above the threshold and carries
\* that chunk's timestamp, and no step writes to two sessions or writes to
\* one session while handling the other's chunk.
C12_OwnDetectionsOnly ==
    [][\A s \in Sessions :
          /\ \A i \in DOMAIN lastOut'[s] :
                 lastOut'[s][i].type = "detection"
                     => /\ lastEvent'[s] = "audio-chunk"
                        /\ lastChunk'[s].scores[lastOut'[s][i].name]
                              > detection_threshold
                        /\ lastOut'[s][i].timestamp = PairChunk(s).timestamp
                        /\ lastOut'[s][i].timestamp = lastChunk'[s].timestamp
          /\ \A t \in Sessions \ {s} :
                 lastChunk'[s] # lastChunk[s] \/ lastOut'[s] # lastOut[s]
                     => lastOut'[t] = lastOut[t]
      ]_vars

\* both sessions have just been written a Detection, of different models
C12_Witness ==
    /\ lastEvent["s1"] = "audio-chunk"
    /\ lastEvent["s2"] = "audio-chunk"
    /\ DetectedNames(lastOut["s1"]) = {stem_b}
    /\ DetectedNames(lastOut["s2"]) = {stem_a_v1}
    /\ lastChunk["s1"].scores[stem_a_v1] = None

\* C13: an event of unexpected type is ignored: handle_event returns True,
\* the connection stays open, nothing is written, and the model held, the
\* detect names, the refractory times, the last timestamp, the detection
\* flag, the audio file, the cache and the models stay as they were; and
\* handle_event returns True for every event type.
C13_UnexpectedIgnored ==
    [][\A s \in Sessions :
          /\ lastEvent[s] # "unexpected" /\ lastEvent'[s] = "unexpected"
                => /\ returned'[s] = TRUE
                   /\ connected'[s]
                   /\ lastOut'[s] = <<>>
                   /\ UNCHANGED <<model[s], model_cache_key[s],
                                   model_wait_time[s], last_timestamp[s],
                                   has_detections[s], detect_names[s],
                                   audio_writer[s], cached, models>>
          /\ lastEvent'[s] \notin {"none", "disconnect"}
                => returned'[s] = TRUE /\ connected'[s] = connected[s]
      ]_vars

\* an unexpected event handled in the middle of a segment, with a model
\* held, a refractory deadline set, names requested and the audio file open
C13_Witness ==
    \E s \in Sessions :
        /\ lastEvent[s] = "unexpected"
        /\ model[s] # NoModel
        /\ model_wait_time[s] # EmptyTimes
        /\ last_timestamp[s] # None
        /\ detect_names[s] # {}
        /\ audio_writer[s]

\* how often the stem is among the discoverable files: the builtin files
\* with a version suffix and all files of the custom directories
Discoverable(builtin, customs, stem) ==
    Cardinality({i \in DOMAIN builtin :
                    builtin[i] = stem /\ WithoutVersion(stem) # stem})
      + Cardinality({d \in {<<k, i>> : k \in DOMAIN customs, i \in 1..4} :
                        /\ d[2] \in DOMAIN customs[d[1]]
                        /\ customs[d[1]][d[2]] = stem})

\* the Info event lists exactly the discoverable files of the directories,
\* each with the description and version its stem spells
InfoDescribes(info, builtin, customs) ==
    /\ info.type = "info"
    /\ Len(info.wake) = 1
    /\ \A stem \in Range(builtin) \cup UNION {Range(customs[k]) :
                                                 k \in DOMAIN customs} :
           Cardinality({i \in DOMAIN info.wake[1].models :
                           info.wake[1].models[i].name = stem})
               = Discoverable(builtin, customs, stem)
    /\ \A i \in DOMAIN info.wake[1].models :
           LET m == info.wake[1].models[i]
               base == WithoutVersion(m.name)
           IN /\ Discoverable(builtin, customs, m.name) > 0
              /\ Len(m.description) = Len(base)
              /\ \A j \in DOMAIN base :
                     m.description[j] = IF base[j] = "_" THEN " " ELSE base[j]
              /\ \A j \in DOMAIN m.description : m.description[j] # "_"
              /\ IF base = m.name THEN m.version = NoVersion
                 ELSE /\ m.version # NoVersion
                      /\ base \o <<"_">> \o m.version = m.name

\* the Info built for each of the directory contents lists their files
InfoDescribesEveryDirectory ==
    \A builtin \in BuiltinDirs : \A customs \in CustomDirs :
        InfoDescribes(InfoOf(ModelPathsOf(builtin, customs)),
                      builtin, customs)

\* C14: the step that handles Describe writes exactly one Info event with
\* exactly one wake program, whose models are the discoverable model files
\* (builtin files with a versioned stem, every custom file), each with the
\* version and the underscore-free description of its stem, and changes
\* nothing of the session, the cache or the models; the Info built for any
\* other directory contents lists their files likewise.
C14_DescribeInfo ==
    [][\A s \in Sessions :
          lastEvent[s] # "describe" /\ lastEvent'[s] = "describe"
              => /\ Len(lastOut'[s]) = 1
                 /\ InfoDescribes(lastOut'[s][1], builtin_models_dir,
                                  custom_model_dirs)
                 /\ InfoDescribesEveryDirectory
                 /\ UNCHANGED <<connected[s], model[s], model_cache_key[s],
                                 model_wait_time[s], last_timestamp[s],
                                 has_detections[s], detect_names[s],
                                 audio_writer[s], cached, models>>
      ]_vars

\* Describe answered in the middle of a segment, a model held
C14_Witness ==
    \E s \in Sessions :
        /\ lastEvent[s] = "describe"
        /\ seg[s].state = "open"
        /\ model[s] # NoModel
        /\ last_timestamp[s] # None
        /\ Len(lastOut[s]) = 1
        /\ lastOut[s][1].type = "info"
        /\ Len(lastOut[s][1].wake[1].models) = 2

\* C15: handling an AudioChunk writes a Detection for a model exactly when
\* the model's score is strictly above the threshold, the session's detect
\* names are empty or hold the model's name, and no Detection of the same
\* model was written less than refractory_seconds before; the refractory
\* deadline of a model without a Detection stays as it was, and whether a
\* model is detected depends on no other model.
C15_DetectionIff ==
    [][\A s \in Sessions :
          lastEvent'[s] = "audio-chunk"
              => \A m \in ModelNames :
                    /\ m \in DetectedNames(lastOut'[s])
                          <=> /\ lastChunk'[s].scores[m] # None
                              /\ lastChunk'[s].scores[m] > detection_threshold
                              /\ \/ detect_names'[s] = {}
                                 \/ m \in detect_names'[s]
                              /\ m \notin lastChunk'[s].recent
                    /\ m \notin DetectedNames(lastOut'[s])
                          => model_wait_time'[s][m] = model_wait_time[s][m]
      ]_vars

\* one chunk in which a model within its refractory period is suppressed
\* and a second model is detected all the same
C15_Witness ==
    \E s \in Sessions :
        /\ lastEvent[s] = "audio-chunk"
        /\ seg[s].state = "open"
        /\ stem_a_v1 \in lastChunk[s].recent
        /\ lastChunk[s].scores[stem_a_v1] > detection_threshold
        /\ lastChunk[s].scores[stem_b] > detection_threshold
        /\ DetectedNames(lastOut[s]) = {stem_b}

\* C16: every AudioChunk a session sends is scored by exactly one call of
\* the classifier, which leaves the held model fed, also when every model
\* of the chunk is within its refractory period or is not among the
\* requested names, so that nothing is written.
C16_PredictEveryChunk ==
    \A s \in Sessions :
        lastEvent[s] = "audio-chunk"
            => /\ lastChunk[s].calls = 1
               /\ model[s] \in ModelIds
               /\ models[model[s]] = "fed"
               /\ ScoredNames(s) = PredictionNameSet(model[s])

\* a chunk scored above the threshold for every model, nothing written: one
\* model within its refractory period, the other not among the names
C16_Witness ==
    \E s \in Sessions :
        /\ lastEvent[s] = "audio-chunk"
        /\ lastOut[s] = <<>>
        /\ lastChunk[s].recent # {}
        /\ detect_names[s] # {}
        /\ \A m \in ScoredNames(s) :
               /\ lastChunk[s].scores[m] > detection_threshold
               /\ m \in lastChunk[s].recent \/ m \notin detect_names[s]
        /\ \E m \in ScoredNames(s) : m \notin lastChunk[s].recent

\* C17: when a chunk is scored, every name the session has sent in Detect
\* since its last AudioStart that resolves to a file has that file among
\* the models loaded for the session, and the chunk has a score of it.
C17_RequestedModelsLoaded ==
    \A s \in Sessions :
        lastEvent[s] = "audio-chunk"
            => \A n \in detect_names[s] :
                   \A p \in Range(FirstMatch(n, _get_model_paths)) :
                       /\ p \in model_cache_key[s]
                       /\ lastChunk[s].scores[p[2]] # None

\* the first candidate with the name's identity, if there is one
Selected(name, model_paths) ==
    LET hits == Matching(name, model_paths)
    IN IF hits = {} THEN <<>>
       ELSE << model_paths[CHOOSE i \in hits : \A j \in hits : i <= j] >>

\* C18: the candidates are the builtin directory's model files (those with
\* a versioned stem) first, then the files of the custom directories in
\* configured order; each requested name selects exactly the first
\* candidate that matches it, at most one path per name, so that a builtin
\* model is selected before a custom model of the same identity.
C18_FirstMatchPrecedence ==
    LET names == resolution.names
        model_paths == resolution.model_paths
        out == resolution.detect_model_paths
    IN names # <<>> =>
        /\ \A i, j \in DOMAIN model_paths :
               i < j => model_paths[i][1] <= model_paths[j][1]
        /\ \A i \in DOMAIN model_paths :
               /\ model_paths[i][1] \in 0..Len(resolution.customs)
               /\ model_paths[i][1] = 0
                     => /\ model_paths[i][2] \in Range(resolution.builtin)
                        /\ WithoutVersion(model_paths[i][2])
                              # model_paths[i][2]
               /\ model_paths[i][1] > 0
                     => model_paths[i][2]
                           \in Range(resolution.customs[model_paths[i][1]])
        /\ \A stem \in {model_paths[i][2] : i \in DOMAIN model_paths} :
               Cardinality({i \in DOMAIN model_paths :
                               model_paths[i][2] = stem})
                   = Discoverable(resolution.builtin, resolution.customs, stem)
        /\ Len(out) <= Len(names)
        /\ out = Selected(names[1], model_paths)
                    \o (IF Len(names) > 1
                        THEN Selected(names[2], model_paths) ELSE <<>>)
        /\ \A k \in DOMAIN names :
               (\E i \in Matching(names[k], model_paths) :
                    model_paths[i][1] = 0)
                   => Selected(names[k], model_paths)[1][1] = 0

\* "a b" asked for where a builtin file and two custom files have that
\* identity: the builtin file is selected
C18_Witness ==
    /\ resolution.names = << <<"a", " ", "b">> >>
    /\ Cardinality(Matching(<<"a", " ", "b">>, resolution.model_paths)) = 3
    /\ resolution.detect_model_paths = << <<0, stem_ab_v1>> >>

\* the sessions that hold the Model object
Holders(id) == {s \in Sessions : model[s] = id}

\* the places of the cache that hold the Model object
CachedAt(id) ==
    UNION {{<<k, i>> : i \in {j \in DOMAIN cached[k] : cached[k][j] = id}} :
              k \in CacheKeys}

\* C19: every Model object that was constructed is in exactly one place:
\* held by one session, whose cache key is the key it was loaded with, or
\* once in the cache under that key; an object never constructed is
\* nowhere; and a session holds a model exactly when it holds a key.
C19_InstanceInOnePlace ==
    /\ \A id \in ModelIds :
           /\ Cardinality(Holders(id)) + Cardinality(CachedAt(id))
                 = IF models[id] = "none" THEN 0 ELSE 1
           /\ \A s \in Holders(id) : model_cache_key[s] = id[1]
           /\ \A e \in CachedAt(id) : e[1] = id[1]
    /\ \A k \in CacheKeys : Len(cached[k]) <= MaxModels
    /\ \A s \in Sessions : model[s] = NoModel <=> model_cache_key[s] = NoKey

\* one session has disconnected, the other has sent AudioStop, and both
\* objects of one key lie in the cache
C19_Witness ==
    /\ lastEvent["s1"] = "disconnect"
    /\ lastEvent["s2"] = "audio-stop"
    /\ \E k \in CacheKeys :
           /\ Len(cached[k]) = 2
           /\ cached[k][1] # cached[k][2]

\* C20: a session that holds no model and takes one while handling an
\* AudioChunk never takes one that was fed audio since its last reset: the
\* model it scores its chunk with is newly constructed or reset.
C20_CachedModelResetBeforeUse ==
    [][\A s \in Sessions :
          /\ model[s] = NoModel
          /\ model'[s] # NoModel
          /\ lastEvent'[s] = "audio-chunk"
          => models[model'[s]] # "fed"
      ]_vars

\* C21: with an output directory, a session never has more than one audio
\* file open at a time, and never lets go of an open one without closing
\* it, so that every file it opened is closed once AudioStop or disconnect
\* is handled.
C21_OneSinkAllClosed ==
    \A s \in Sessions :
        /\ lastSink[s].peak <= 1
        /\ ~lastSink[s].dropped
        /\ lastEvent[s] \in {"audio-stop", "disconnect"} => ~audio_writer[s]
====
